---- MODULE Spec2Model ----
(***************************************************************************)
(* Inquiry Classification Service of monozukuri-ai: input sanitizer,       *)
(* language detector, fallback rule classifier, cache tier manager, token  *)
(* bucket rate limiter, LLM classifier adapter and the classification      *)
(* orchestrator that composes them.                                        *)
(*                                                                         *)
(* Confidences are integers in percent (0.7 is 70).  Time is counted in    *)
(* ticks; one token of the rate limiter refills in TicksPerToken ticks and *)
(* bucket levels are counted in 1/TicksPerToken of a token.                *)
(***************************************************************************)
EXTENDS Integers, Sequences, FiniteSets, TLC

\* ------------------------------------------------------------- bounds
\* Concurrent classification requests.
MaxRequests == 2
\* Clients (rate-limiter keys).
MaxClients == 1
\* Clock advances of the orchestrator specification.
MaxTicks == 1
\* Ticks in which one rate-limiter token refills (resolution of the clock).
TicksPerToken == 2
\* admit calls followed per client key.
MaxAdmits == 12
\* Clock advances while admit calls are followed.
MaxRateTicks == 2
\* Asynchronous actions of the web app's store under way at once.
MaxCalls == 2
MaxMutations == 2
MaxSent == 2
MaxApiCalls == 2
MaxPages == 4

\* ---------------------------------------------------- program constants
MinTextLength == 10
MaxTextLength == 5000
RatePerMinute == 100
BurstCapacity == 10
HighConfidence == 90
MediumConfidence == 70
ListedConfidence == 10
MaxConfidence == 100
TtlHighHours == 24
TtlMediumHours == 1

TicksPerMinute == RatePerMinute * TicksPerToken
TicksPerHour == 60 * TicksPerMinute

Categories ==
  {"QUOTE_REQUEST", "TECHNICAL_SPECIFICATION", "CAPABILITY_QUESTION",
   "PARTNERSHIP_INQUIRY", "GENERAL_INQUIRY", "UNKNOWN"}

\* Fixed order of the categories (the order the category list is given in).
CategoryOrder ==
  <<"QUOTE_REQUEST", "TECHNICAL_SPECIFICATION", "CAPABILITY_QUESTION",
    "PARTNERSHIP_INQUIRY", "GENERAL_INQUIRY", "UNKNOWN">>

Languages == {"en", "ja", "other"}

\* ------------------------------------------------------------ inquiry text
\* A raw inquiry text: what it says (content), whether it is written in upper
\* case, how many surplus whitespace and control characters it carries, and
\* its raw length in characters.
RawTexts ==
  { [content |-> "quote_en", upper |-> FALSE, ws |-> 0, ctrl |-> 0, len |-> 10],
    [content |-> "quote_en", upper |-> TRUE,  ws |-> 2, ctrl |-> 0, len |-> 12],
    [content |-> "quote_ja", upper |-> FALSE, ws |-> 0, ctrl |-> 1, len |-> 5001],
    [content |-> "misc",     upper |-> FALSE, ws |-> 0, ctrl |-> 0, len |-> 9],
    [content |-> "misc",     upper |-> FALSE, ws |-> 0, ctrl |-> 0, len |-> 5001] }

\* Script of the characters of a content.
ScriptOf(content) ==
  CASE content = "quote_en" -> "latin"
    [] content = "quote_ja" -> "cjk"
    [] OTHER -> "symbols"

\* Categories whose keywords a content holds.
KeywordsOf(content) ==
  CASE content = "quote_en" -> {"QUOTE_REQUEST"}
    [] content = "quote_ja" -> {"QUOTE_REQUEST", "TECHNICAL_SPECIFICATION"}
    [] OTHER -> {}

\* ------------------------------------------------------- 4.1 sanitizer
\* Control characters stripped, whitespace normalized.
CleanOf(text) ==
  [content |-> text.content, upper |-> text.upper,
   len |-> text.len - text.ws - text.ctrl]

\* sanitize(text): the clean text, or the ValidationError it fails with.
Sanitize(text) ==
  LET clean == CleanOf(text) IN
  IF clean.len < MinTextLength THEN [ok |-> FALSE, error |-> "TooShort"]
  ELSE IF clean.len > MaxTextLength THEN [ok |-> FALSE, error |-> "TooLong"]
  ELSE [ok |-> TRUE, clean |-> clean]

\* ------------------------------------------------ 4.2 language detector
DetectLanguage(clean) ==
  CASE ScriptOf(clean.content) = "cjk" -> "ja"
    [] ScriptOf(clean.content) = "latin" -> "en"
    [] OTHER -> "other"

\* -------------------------------------------------- 4.3 cache fingerprint
\* Stable hash of the sanitized, lower-cased, whitespace-normalized text:
\* the case of the text is dropped.
Fingerprint(clean) == <<clean.content, clean.len>>

Fingerprints ==
  { Fingerprint(Sanitize(t).clean) : t \in { x \in RawTexts : Sanitize(x).ok } }

\* ------------------------------------------------ classification results
Min(a, b) == IF a < b THEN a ELSE b

Pair(cat, conf) == [category |-> cat, confidence |-> conf]

\* Listed without its threshold: every pair is listed.
ListedAll(pairs) == pairs

\* The pairs with a confidence above the listing threshold, in their order.
Listed(pairs) == SelectSeq(pairs, LAMBDA p : p.confidence > ListedConfidence)

\* p inserted into a list sorted by descending confidence, after its equals.
RECURSIVE InsertDesc(_, _)
InsertDesc(p, sorted) ==
  IF sorted = << >> THEN <<p>>
  ELSE IF Head(sorted).confidence >= p.confidence
       THEN <<Head(sorted)>> \o InsertDesc(p, Tail(sorted))
       ELSE <<p>> \o sorted

\* Stable sort by descending confidence.
RECURSIVE SortDesc(_)
SortDesc(pairs) ==
  IF pairs = << >> THEN << >>
  ELSE InsertDesc(Head(pairs), SortDesc(Tail(pairs)))

\* ClassificationResult of a non-empty scoring: the best pair is the primary
\* category, all_categories lists the pairs above the threshold, best first.
BuildResult(pairs, language, fallback) ==
  LET ranked == SortDesc(pairs) IN
  [primary_category |-> ranked[1].category,
   confidence |-> ranked[1].confidence,
   all_categories |-> Listed(ranked),
   detected_language |-> language,
   fallback_used |-> fallback]

\* ------------------------------------------- 4.5 fallback rule classifier
FallbackMatchConfidence == 60
FallbackNoMatchConfidence == 30

\* Keyword scores per category, in the fixed category order.
FallbackScores(clean) ==
  LET matched == SelectSeq(CategoryOrder,
                           LAMBDA c : c \in KeywordsOf(clean.content)) IN
  IF matched = << >>
  THEN <<Pair("UNKNOWN", FallbackNoMatchConfidence)>>
  ELSE [i \in 1..Len(matched) |-> Pair(matched[i], FallbackMatchConfidence)]

\* classify_fallback(text, language): always succeeds, marks its output.
ClassifyFallback(clean, language) ==
  BuildResult(FallbackScores(clean), language, TRUE)

\* ------------------------------------------- 4.6 LLM classifier adapter
\* What the provider may answer: structured output (well formed or not),
\* the scored categories in the order the model wrote them.
RawOutputs ==
  { [wellformed |-> TRUE,
     pairs |-> <<Pair("TECHNICAL_SPECIFICATION", 30), Pair("QUOTE_REQUEST", 95),
                 Pair("GENERAL_INQUIRY", 5)>>],
    [wellformed |-> TRUE,
     pairs |-> <<Pair("GENERAL_INQUIRY", 10), Pair("CAPABILITY_QUESTION", 70),
                 Pair("PARTNERSHIP_INQUIRY", 70)>>],
    [wellformed |-> TRUE,
     pairs |-> <<Pair("GENERAL_INQUIRY", 11), Pair("UNKNOWN", 69)>>],
    [wellformed |-> TRUE, pairs |-> <<Pair("QUOTE_REQUEST", 120)>>],
    [wellformed |-> FALSE, pairs |-> << >>] }

\* Parseable without the validation of the categories and confidences.
ParseableUnvalidated(raw) == raw.wellformed /\ raw.pairs # << >>

\* Whether a provider answer parses into ClassificationResult fields.
Parseable(raw) ==
  /\ raw.wellformed
  /\ raw.pairs # << >>
  /\ \A i \in 1..Len(raw.pairs) :
       /\ raw.pairs[i].category \in Categories
       /\ raw.pairs[i].confidence \in 0..MaxConfidence

\* What one LLM call ends in: a timeout, a provider error or an answer.
NoRaw == [wellformed |-> FALSE, pairs |-> << >>]

LlmOutcomes ==
  { [kind |-> "Timeout", raw |-> NoRaw], [kind |-> "ProviderError", raw |-> NoRaw] }
    \cup { [kind |-> "Response", raw |-> raw] : raw \in RawOutputs }

\* classify_llm(text, language): the parsed result or the failure.
ClassifyLlm(outcome, language) ==
  IF outcome.kind # "Response" THEN [ok |-> FALSE, error |-> outcome.kind]
  ELSE IF ~Parseable(outcome.raw) THEN [ok |-> FALSE, error |-> "ParseError"]
  ELSE [ok |-> TRUE, result |-> BuildResult(outcome.raw.pairs, language, FALSE)]

\* ------------------------------------------------ 4.3 cache tier manager
\* No result (yet).
NoResult ==
  [primary_category |-> "NONE", confidence |-> 0, all_categories |-> << >>,
   detected_language |-> "other", fallback_used |-> FALSE]

NoEntry ==
  [present |-> FALSE, result |-> NoResult, band |-> "low", expires_at |-> 0]

ConfidenceBand(confidence) ==
  IF confidence >= HighConfidence THEN "high"
  ELSE IF confidence >= MediumConfidence THEN "medium"
  ELSE "low"

\* TtlOf with one time to live for every band.
TtlOfMediumOnly(band) == TtlMediumHours * TicksPerHour

\* Time to live of a band, in ticks.
TtlOf(band) ==
  IF band = "high" THEN TtlHighHours * TicksPerHour
  ELSE TtlMediumHours * TicksPerHour

\* Live of a cache whose entries do not expire.
LivePresent(entry, t) == entry.present

\* An entry that is there and has not expired at time t.
Live(entry, t) == entry.present /\ t < entry.expires_at

\* lookup(fingerprint) at time t: the stored result or a miss.
Lookup(c, fp, t) ==
  IF Live(c[fp], t) THEN [hit |-> TRUE, result |-> c[fp].result]
  ELSE [hit |-> FALSE]

\* Lazy eviction: the lookup drops the entry it finds expired.
Evict(c, fp, t) ==
  IF c[fp].present /\ ~Live(c[fp], t) THEN [c EXCEPT ![fp] = NoEntry] ELSE c

\* store(fingerprint, result) at time t: nothing for a low-confidence result,
\* nothing over an entry that is still live (entries are immutable).
Store(c, fp, result, t) ==
  LET band == ConfidenceBand(result.confidence) IN
  IF band = "low" \/ Live(c[fp], t) THEN c
  ELSE [c EXCEPT ![fp] = [present |-> TRUE, result |-> result, band |-> band,
                           expires_at |-> t + TtlOf(band)]]

\* Bookkeeping of the store calls, kept beside the cache: what section 3
\* says a fingerprint's entry is after a store of result at time at.
NeverWritten == [at |-> 0, result |-> NoResult]

\* Whether the remembered result is one the cache keeps at time t: high
\* confidence for 24h, medium confidence for 1h, low confidence never.
Kept(w, t) ==
  /\ w.result.confidence >= MediumConfidence
  /\ t < w.at + (IF w.result.confidence >= HighConfidence
                 THEN TtlHighHours ELSE TtlMediumHours) * TicksPerHour

\* The bookkeeping after store(fp, result) at time t.
Remember(w, fp, result, t) ==
  IF Kept(w[fp], t) THEN w ELSE [w EXCEPT ![fp] = [at |-> t, result |-> result]]

\* --------------------------------------------------- 4.4 rate limiter
NoBucket == [present |-> FALSE, tokens |-> 0, last_refill |-> 0]

\* Bucket levels are counted in 1/TicksPerToken of a token.
OneToken == TicksPerToken
FullBucket == BurstCapacity * OneToken

\* The bucket a client gets on its first request.
NewBucket(t) == [present |-> TRUE, tokens |-> FullBucket, last_refill |-> t]

\* Tokens refilled for the time since last_refill, capped at the capacity.
Refill(b, t) ==
  [b EXCEPT !.tokens = Min(FullBucket, b.tokens + (t - b.last_refill)),
            !.last_refill = t]

\* Deduct whose denial tells no waiting time.
DeductNoWait(b) ==
  IF b.tokens >= OneToken
  THEN [allowed |-> TRUE, bucket |-> [b EXCEPT !.tokens = b.tokens - OneToken],
        retry_after |-> 0]
  ELSE [allowed |-> FALSE, bucket |-> b, retry_after |-> 0]

\* The decision on a refilled bucket: one token deducted, or the time until
\* one token will be there.
Deduct(b) ==
  IF b.tokens >= OneToken
  THEN [allowed |-> TRUE, bucket |-> [b EXCEPT !.tokens = b.tokens - OneToken],
        retry_after |-> 0]
  ELSE [allowed |-> FALSE, bucket |-> b, retry_after |-> OneToken - b.tokens]

\* admit(client_key) on the client's bucket at time t.
Admit(b, t) == Deduct(Refill(IF b.present THEN b ELSE NewBucket(t), t))

\* The bucket after n admit calls in a row at time t.
RECURSIVE AdmitTimes(_, _, _)
AdmitTimes(b, t, n) ==
  IF n = 0 THEN b ELSE AdmitTimes(Admit(b, t).bucket, t, n - 1)

\* The X-RateLimit-* headers of a decision taken at time t.
RateHeaders(decision, t) ==
  [limit |-> RatePerMinute,
   remaining |-> decision.bucket.tokens \div OneToken,
   reset |-> t + decision.retry_after]

\* ------------------------------------------------------------- state
Requests == 1..MaxRequests
Clients == 1..MaxClients

NoClean == [content |-> "none", upper |-> FALSE, len |-> 0]
NoHeaders == [limit |-> 0, remaining |-> 0, reset |-> 0]

VARIABLES
  now,        \* the clock, in ticks
  ticks,      \* clock advances taken
  cache,      \* Cache Tier Manager: fingerprint -> CacheEntry or NoEntry
  written,    \* per fingerprint, the result last handed to store while none was kept, and when
  inflight,   \* fingerprints with a classification in flight (single-flight)
  buckets,    \* Rate Limiter: client_key -> RateBucket or NoBucket
  req,        \* the Orchestrator invocations, one record per request
  found,      \* Cache Tier Manager: what the last direct lookup returned
  locked,     \* Rate Limiter: client keys whose critical section is taken
  callers,    \* Rate Limiter: the concurrent admit calls, one record per caller
  ledger,     \* per client key, the account of the admit decisions
  store,      \* web app, inquiryStore: inquiries, currentInquiry, isLoading, error
  calls,      \* web app, inquiryStore: the asynchronous actions under way
  settled,    \* web app: how the last asynchronous action settled
  hook,       \* web app, useInquiry: inquiries, submissionStatus, lastSubmittedId
  mutations,  \* web app, useInquiry: the mutations and fetches under way
  sent,       \* web app, useInquiry: the requests handed to apiService, in order
  form,       \* web app, InquiryForm: values, formErrors, what went to onSubmit
  apiClient,  \* web app, API client: localStorage and the requests under way
  dashboard   \* web app, DashboardLayout: filters, currentPage, inquiriesData

vars == <<now, ticks, cache, written, inflight, buckets, req,
          found, locked, callers, ledger, store, calls, settled,
          hook, mutations, sent, form, apiClient, dashboard>>

\* The state of the classification service.
serviceVars == <<now, ticks, cache, written, inflight, buckets, req,
                 found, locked, callers, ledger>>

\* The state of the web application.
webVars == <<store, calls, settled, hook, mutations, sent, form, apiClient, dashboard>>

\* The state of the components and of the API client.
viewVars == <<form, apiClient, dashboard>>

\* The state of the inquiry store.
storeVars == <<store, calls>>

\* The state of the useInquiry hook.
hookVars == <<hook, mutations, sent>>

\* What the operations called on the components directly work on.
componentVars == <<found, locked, callers, ledger>>

\* What the orchestrator's requests work on.
orchestratorVars == <<inflight, req>>

\* The callers of admit that run concurrently.
Callers == {"a", "b"}

\* No lookup yet.
NoFound == [fp |-> <<"none", 0>>, at |-> 0, hit |-> FALSE, result |-> NoResult]

\* A caller outside admit.
IdleCaller == [pc |-> "idle", client |-> 1, seen |-> NoBucket, at |-> 0]

\* No decision yet.
NoDecision == [allowed |-> FALSE, retry_after |-> 0, headers |-> NoHeaders]

\* The account of a client key nobody asked for yet: calls decided, calls
\* admitted, tokens credited by refills, when the bucket was opened, the
\* ordinal of the first call denied (0: none), the last decision.
EmptyLedger ==
  [requests |-> 0, admitted |-> 0, credited |-> 0, opened |-> 0,
   first_denied |-> 0, first_denied_at |-> 0, first_denied_remaining |-> 0,
   last |-> NoDecision, last_at |-> 0]

\* A request before it is submitted.  trail lists the states of the
\* orchestrator's state machine the request went through, events the stream
\* it emitted.
IdleRequest ==
  [pc |-> "Idle", client |-> 1, degraded_ok |-> FALSE,
   clean |-> NoClean, language |-> "other", leader |-> FALSE,
   result |-> NoResult, status |-> 0, error |-> "none",
   retry_after |-> 0, headers |-> NoHeaders, events |-> << >>,
   trail |-> << >>, llm_calls |-> 0, path |-> "none",
   puts |-> << >>, stored |-> "none"]

\* ------------------------------------- web application: inquiryStore data
\* The slots of asynchronous store actions that may be under way at once.
Calls == 1..MaxCalls

InquiryIds == {"INQ-1", "INQ-2"}

\* An inquiry as far as the store looks at it.  updatedAt is "server" for
\* the date the server sent, "now" for a new Date() of the client.
Inquiry(id, status, updatedAt) ==
  [id |-> id, status |-> status, updatedAt |-> updatedAt]

\* null in the place of an inquiry.
NullInquiry == Inquiry("null", "null", "null")

\* The lists the server answers fetchInquiries with.
ServerLists ==
  { << >>,
    <<Inquiry("INQ-1", "pending", "server")>>,
    <<Inquiry("INQ-1", "pending", "server"), Inquiry("INQ-2", "reviewed", "server")>>,
    <<Inquiry("INQ-2", "processed", "server"), Inquiry("INQ-1", "reviewed", "server")>> }

\* Partial<Inquiry> as passed to updateInquiry: a new status, or no field.
Updates == { [status |-> st] : st \in {"keep", "processed"} }

\* null in the place of an Error.
NullError == [message |-> "null"]

\* What a failed API call rejects with: apiService rejects with the Error of
\* the HTTP client.
ApiRejections ==
  { [instance |-> "Error", message |-> m] :
      m \in {"Network Error", "Request failed with status code 500"} }

\* A store action that is not under way.  deleted keeps, for a fetch under
\* way, the ids whose deleteInquiry succeeded since the fetch started.
IdleCall == [kind |-> "none", state |-> "idle", id |-> "null", deleted |-> {}]

\* No store action has settled yet.  A settled action is told by its kind,
\* whether its promise resolved or rejected, the error thrown to the caller
\* and the value returned.
NothingSettled ==
  [kind |-> "none", outcome |-> "none", thrown |-> NullError, returned |-> "null"]

InitialStore ==
  [inquiries |-> << >>, currentInquiry |-> NullInquiry,
   isLoading |-> FALSE, error |-> NullError]

\* ---------------------------------------- web application: useInquiry data
Mutations == 1..MaxMutations

\* A string of a form field: its surrounding whitespace, the characters of
\* its HTML tags and its other characters, each as a number of characters.
Text(space, markup, visible) ==
  [space |-> space, markup |-> markup, visible |-> visible]

\* string.length
Length(text) == text.space + text.markup + text.visible

\* !string?.trim()
Blank(text) == text.markup + text.visible = 0

\* Contact addresses: none, one without @, a well-formed one.
Emails == {"", "buyer.example.com", "buyer@example.com"}

\* emailRegex.test(contactEmail)
MatchesEmailRegex(email) == email = "buyer@example.com"

FormData(title, description, contactEmail, companyName) ==
  [title |-> title, description |-> description,
   contactEmail |-> contactEmail, companyName |-> companyName]

\* The forms handed to submitInquiry.
Forms ==
  { FormData(Text(0, 0, 12), Text(0, 0, 25), "buyer@example.com", Text(0, 0, 8)),
    FormData(Text(0, 0, 12), Text(0, 0, 15), "buyer@example.com", Text(0, 0, 8)),
    FormData(Text(0, 0, 12), Text(0, 0, 9), "buyer@example.com", Text(0, 0, 8)),
    FormData(Text(0, 0, 12), Text(0, 0, 5001), "buyer@example.com", Text(0, 0, 8)),
    FormData(Text(2, 14, 8), Text(1, 14, 8), "buyer@example.com", Text(0, 0, 8)),
    FormData(Text(0, 0, 200), Text(0, 0, 25), "buyer@example.com", Text(0, 0, 8)),
    FormData(Text(0, 0, 201), Text(0, 0, 25), "buyer@example.com", Text(0, 0, 8)),
    FormData(Text(0, 0, 12), Text(0, 0, 25), "buyer.example.com", Text(0, 0, 8)) }

\* No form.
NoForm == FormData(Text(0, 0, 0), Text(0, 0, 0), "", Text(0, 0, 0))

\* No updates.
NoUpdates == [status |-> "keep"]

\* A request handed to apiService.
Request(method, id, data, updates) ==
  [method |-> method, id |-> id, data |-> data, updates |-> updates]

\* A mutation that is not under way.  was and confirmed keep what the
\* inquiries were when updateInquiry was called and what the user answered
\* to the confirmation dialog of deleteInquiry.
IdleMutation ==
  [kind |-> "none", state |-> "idle", id |-> "null", updates |-> NoUpdates,
   data |-> NoForm, was |-> << >>, confirmed |-> FALSE]

\* observed is the mutation the observer of submitMutation follows: the one
\* started last, 0 when it has settled or none was started.
InitialHook ==
  [inquiries |-> << >>, submissionStatus |-> "idle", lastSubmittedId |-> "null",
   observed |-> 0]

\* --------------------------------------- web application: InquiryForm data
\* formErrors: per field the message shown, "" for none.
NoFormErrors == [title |-> "", description |-> "", contactEmail |-> "", companyName |-> ""]

\* The form as rendered first: default values, no errors, onSubmit not
\* awaited.  passed counts the calls of onSubmit, payload is what the last
\* call was given.
InitialForm ==
  [values |-> NoForm, formErrors |-> NoFormErrors, isSubmitting |-> FALSE,
   passed |-> 0, payload |-> NoForm]

\* ---------------------------------------- web application: API client data
ApiCalls == 1..MaxApiCalls

\* The tokens the refresh endpoint hands out; "stale" is the one the
\* session starts with, "none" no token.
FreshTokens == {"fresh-1", "fresh-2"}

\* A call of apiClient that is not under way.  authorization is the
\* Authorization header of the request sent last, refreshes and retries
\* count the refresh calls and the retries made for the call, events is
\* what the interceptor did for it, in order.
IdleApiCall ==
  [pc |-> "idle", authorization |-> "none", refreshes |-> 0, retries |-> 0,
   events |-> << >>, outcome |-> "none", status |-> 0, via |-> "none"]

InitialClient ==
  [authToken |-> "stale", location |-> "/", calls |-> [c \in ApiCalls |-> IdleApiCall]]

\* ------------------------------------ web application: DashboardLayout data
\* No answer of the inquiries query for the current key.
NoData == [defined |-> FALSE, page |-> 0, total_pages |-> 0]

NoFilters == [search |-> "", status |-> ""]

InitialDashboard ==
  [filters |-> NoFilters, currentPage |-> 1, inquiriesData |-> NoData]

Init ==
  /\ form = InitialForm
  /\ apiClient = InitialClient
  /\ dashboard = InitialDashboard
  /\ hook = InitialHook
  /\ mutations = [k \in Mutations |-> IdleMutation]
  /\ sent = << >>
  /\ store = InitialStore
  /\ calls = [k \in Calls |-> IdleCall]
  /\ settled = NothingSettled
  /\ now = 0
  /\ ticks = 0
  /\ cache = [fp \in Fingerprints |-> NoEntry]
  /\ written = [fp \in Fingerprints |-> NeverWritten]
  /\ inflight = {}
  /\ buckets = [c \in Clients |-> NoBucket]
  /\ req = [r \in Requests |-> IdleRequest]
  /\ found = NoFound
  /\ locked = {}
  /\ callers = [k \in Callers |-> IdleCaller]
  /\ ledger = [c \in Clients |-> EmptyLedger]

TerminalPcs == {"Done", "Rejected", "RateLimited", "Cancelled"}

Event(name, progress) == [event |-> name, progress |-> progress]

FpOf(r) == Fingerprint(req[r].clean)

\* ------------------------------------------- 4.7 orchestrator, step by step
\* Received -> Sanitized, or the ValidationError surfaced as 400.  The stream
\* of the inquiry opens when the submission arrives.
Receive(r, text, client, degraded_ok) ==
  /\ req[r].pc = "Idle"
  /\ LET s == Sanitize(text)
         got == [req[r] EXCEPT !.client = client, !.degraded_ok = degraded_ok,
                               !.events = <<Event("classification_start", 0)>>]
     IN
     req' = [req EXCEPT ![r] =
       IF s.ok
       THEN [got EXCEPT !.pc = "Sanitized", !.clean = s.clean,
                        !.trail = <<"Received", "Sanitized">>,
                        !.events = Append(@, Event("classification_progress", 25))]
       ELSE [got EXCEPT !.pc = "Rejected", !.status = 400, !.error = s.error,
                        !.trail = <<"Received">>,
                        !.events = Append(@, Event("error", 0))]]
  /\ UNCHANGED <<now, ticks, cache, written, inflight, buckets>>
  /\ UNCHANGED componentVars
  /\ UNCHANGED webVars

\* Finished that persists only what was classified anew.
FinishedFreshOnly(rec, result, path) ==
  [rec EXCEPT !.pc = "Done", !.result = result, !.status = 200, !.path = path,
              !.leader = FALSE, !.trail = Append(@, "Done"),
              !.events = Append(@, Event("classification_complete", 100)),
              !.puts = IF path = "cache" THEN @ ELSE Append(@, result),
              !.stored = IF path = "cache" THEN @ ELSE "pending"]

\* The result a request ends with: 200, the stream closes, and the result
\* is handed to the persistence collaborator (put, fire-and-forget).  puts
\* lists what the collaborator was handed for the request, stored says how
\* the put went.
Finished(rec, result, path) ==
  [rec EXCEPT !.pc = "Done", !.result = result, !.status = 200, !.path = path,
              !.leader = FALSE, !.trail = Append(@, "Done"),
              !.events = Append(@, Event("classification_complete", 100)),
              !.puts = Append(@, result), !.stored = "pending"]

\* Fallback -> Done.
FellBack(rec) ==
  Finished([rec EXCEPT !.trail = Append(@, "Fallback")],
           ClassifyFallback(rec.clean, rec.language), "fallback")

\* InFlight of a lookup that does not see the flights.
InFlightUnseen(fp) == FALSE

\* Whether a classification for the fingerprint is in flight.
InFlight(fp) == fp \in inflight

\* Sanitized -> CacheLookup, with language detection beside it: a hit ends the
\* request, a fingerprint in flight makes it wait, a miss makes it the one
\* classification in flight for its fingerprint.
CacheLookupStep(r) ==
  /\ req[r].pc = "Sanitized"
  /\ LET fp == FpOf(r)
         got == Lookup(cache, fp, now)
         lang == DetectLanguage(req[r].clean)
         seen == [req[r] EXCEPT !.language = lang,
                                !.trail = Append(@, "CacheLookup")]
     IN
     /\ cache' = Evict(cache, fp, now)
     /\ IF got.hit
        THEN /\ req' = [req EXCEPT ![r] =
                  Finished([seen EXCEPT !.trail = Append(@, "CacheHit")],
                           got.result, "cache")]
             /\ UNCHANGED inflight
        ELSE IF InFlight(fp)
        THEN /\ req' = [req EXCEPT ![r] = [seen EXCEPT !.pc = "Waiting"]]
             /\ UNCHANGED inflight
        ELSE /\ req' = [req EXCEPT ![r] =
                  [seen EXCEPT !.pc = "RateCheck", !.leader = TRUE,
                               !.trail = Append(@, "CacheMiss")]]
             /\ inflight' = inflight \cup {fp}
  /\ UNCHANGED <<now, ticks, written, buckets>>
  /\ UNCHANGED componentVars
  /\ UNCHANGED webVars

\* A waiting request looks the fingerprint up again once the flight has ended.
ResumeStep(r) ==
  /\ req[r].pc = "Waiting"
  /\ ~InFlight(FpOf(r))
  /\ req' = [req EXCEPT ![r].pc = "Sanitized"]
  /\ UNCHANGED <<now, ticks, cache, written, inflight, buckets>>
  /\ UNCHANGED componentVars
  /\ UNCHANGED webVars

\* The 429 answer to a denied request.
Refused(rec, d, t) ==
  [rec EXCEPT !.pc = "RateLimited", !.status = 429,
              !.error = "RateLimited", !.leader = FALSE,
              !.trail = Append(@, "Denied"),
              !.retry_after = d.retry_after,
              !.headers = RateHeaders(d, t),
              !.events = Append(@, Event("error", 25))]

\* OnDenied that answers 429 whatever the caller opted into.
OnDeniedRefuseAll(rec, d, t) == Refused(rec, d, t)

\* RateCheck -> Denied: Fallback -> Done for a caller who opted into degraded
\* service, 429 with retry_after and the X-RateLimit headers otherwise.
OnDenied(rec, d, t) ==
  IF rec.degraded_ok
  THEN FellBack([rec EXCEPT !.trail = Append(@, "Denied")])
  ELSE Refused(rec, d, t)

\* CacheMiss -> RateCheck: admitted to the LLM call, or denied: Fallback -> Done
\* for a caller who opted into degraded service, 429 otherwise.
RateCheckStep(r) ==
  /\ req[r].pc = "RateCheck"
  /\ LET c == req[r].client
         d == Admit(buckets[c], now)
         seen == [req[r] EXCEPT !.trail = Append(@, "RateCheck")]
     IN
     /\ buckets' = [buckets EXCEPT ![c] = d.bucket]
     /\ IF d.allowed
        THEN /\ req' = [req EXCEPT ![r] =
                  [seen EXCEPT !.pc = "LlmCall", !.llm_calls = @ + 1,
                               !.trail = @ \o <<"Admitted", "LlmCall">>,
                               !.events = Append(@, Event("classification_progress", 50))]]
             /\ UNCHANGED inflight
        ELSE /\ req' = [req EXCEPT ![r] = OnDenied(seen, d, now)]
             /\ inflight' = inflight \ {FpOf(r)}
  /\ UNCHANGED <<now, ticks, cache, written>>
  /\ UNCHANGED componentVars
  /\ UNCHANGED webVars

\* Whether the orchestrator keeps the LLM's result (high or medium confidence).
Confident(result) == ConfidenceBand(result.confidence) # "low"

\* OnLlmFailure that hands the adapter's failure to the caller as a 500.
OnLlmFailureRaised(rec, error) ==
  [rec EXCEPT !.pc = "Rejected", !.status = 500, !.error = error,
              !.leader = FALSE, !.trail = Append(@, "Failure"),
              !.events = Append(@, Event("error", 50))]

\* OnLlmFailure that also reports the failure on the stream before it falls back.
OnLlmFailureReported(rec, error) ==
  FellBack([rec EXCEPT !.error = error, !.trail = Append(@, "Failure"),
                       !.events = Append(@, Event("error", 50))])

\* A failed LLM call (Timeout, ProviderError, ParseError): Failure -> Fallback.
OnLlmFailure(rec, error) ==
  FellBack([rec EXCEPT !.error = error, !.trail = Append(@, "Failure")])

\* CacheAfterLlm that writes whatever the request ends with, the fallback
\* result included, straight into the cache.
CacheAfterLlmAlways(fp, got) ==
  [cache EXCEPT ![fp] =
     [present |-> TRUE,
      result |-> IF got.ok THEN got.result ELSE ClassifyFallback([content |-> fp[1], upper |-> FALSE, len |-> fp[2]], "other"),
      band |-> "medium", expires_at |-> now + TtlOf("medium")]]

\* The cache after the LLM call of a request for fp ended in got: the store
\* is triggered on success with high or medium confidence.
CacheAfterLlm(fp, got) ==
  IF got.ok /\ Confident(got.result)
  THEN Store(cache, fp, got.result, now)
  ELSE cache

\* The LLM call ends and the request runs to its end:
\* Success -> ConfidenceCheck -> High = CacheStoreThenDone | Low -> Fallback,
\* Failure -> Fallback; Fallback -> Done.
LlmReturnStep(r, outcome) ==
  /\ req[r].pc = "LlmCall"
  /\ LET fp == FpOf(r)
         got == ClassifyLlm(outcome, req[r].language)
     IN
     /\ cache' = CacheAfterLlm(fp, got)
     /\ IF got.ok /\ Confident(got.result)
        THEN /\ written' = Remember(written, fp, got.result, now)
             /\ req' = [req EXCEPT ![r] =
                  Finished([@ EXCEPT
                      !.trail = @ \o <<"Success", "ConfidenceCheck", "High",
                                       "CacheStore">>,
                      !.events = Append(@, Event("classification_progress", 75))],
                    got.result, "llm")]
        ELSE /\ req' = [req EXCEPT ![r] =
                  IF got.ok
                  THEN FellBack([@ EXCEPT
                         !.trail = @ \o <<"Success", "ConfidenceCheck", "Low">>,
                         !.events = Append(@, Event("classification_progress", 75))])
                  ELSE OnLlmFailure(@, got.error)]
             /\ UNCHANGED written
  /\ inflight' = inflight \ {FpOf(r)}
  /\ UNCHANGED <<now, ticks, buckets>>
  /\ UNCHANGED componentVars
  /\ UNCHANGED webVars

\* The caller disconnects before Done: the LLM call is cancelled and nothing
\* is stored.
Disconnect(r) ==
  /\ req[r].pc \in {"Sanitized", "Waiting", "RateCheck", "LlmCall"}
  /\ inflight' = IF req[r].leader THEN inflight \ {FpOf(r)} ELSE inflight
  /\ req' = [req EXCEPT ![r] =
       [@ EXCEPT !.pc = "Cancelled", !.error = "Cancelled", !.leader = FALSE,
                 !.trail = Append(@, "Cancelled"),
                 !.events = Append(@, Event("error", 0))]]
  /\ UNCHANGED <<now, ticks, cache, written, buckets>>
  /\ UNCHANGED componentVars
  /\ UNCHANGED webVars

\* Requests of the client outside the ones followed here: a burst of
\* BurstCapacity admit calls at one instant.
OtherBurst(c) ==
  /\ Admit(buckets[c], now).allowed
  /\ buckets' = [buckets EXCEPT ![c] = AdmitTimes(buckets[c], now, BurstCapacity)]
  /\ UNCHANGED <<now, ticks, cache, written, inflight, req>>
  /\ UNCHANGED componentVars
  /\ UNCHANGED webVars

\* Clock steps: a tick, an hour, a day.
TickSteps == {1, TtlMediumHours * TicksPerHour, TtlHighHours * TicksPerHour}

Tick(d) ==
  /\ ticks < MaxTicks
  /\ now' = now + d
  /\ ticks' = ticks + 1
  /\ UNCHANGED <<cache, written, inflight, buckets, req>>
  /\ UNCHANGED componentVars
  /\ UNCHANGED webVars

Next ==
  \/ \E r \in Requests, text \in RawTexts, client \in Clients, ok \in BOOLEAN :
       Receive(r, text, client, ok)
  \/ \E r \in Requests : CacheLookupStep(r)
  \/ \E r \in Requests : ResumeStep(r)
  \/ \E r \in Requests : RateCheckStep(r)
  \/ \E r \in Requests, outcome \in LlmOutcomes : LlmReturnStep(r, outcome)
  \/ \E r \in Requests : Disconnect(r)
  \/ \E c \in Clients : OtherBurst(c)
  \/ \E d \in TickSteps : Tick(d)

Spec == Init /\ [][Next]_vars

\* ------------------------------------------ 6 outbound persistence contract
\* The put of a request's result settles: stored, or failed.
PutSettle(r, ok) ==
  /\ req[r].pc = "Done"
  /\ req[r].stored = "pending"
  /\ req' = [req EXCEPT ![r].stored = IF ok THEN "stored" ELSE "failed"]
  /\ UNCHANGED <<now, ticks, cache, written, inflight, buckets>>
  /\ UNCHANGED componentVars
  /\ UNCHANGED webVars

NextPersist ==
  \/ Next
  \/ \E r \in Requests, ok \in BOOLEAN : PutSettle(r, ok)

SpecPersist == Init /\ [][NextPersist]_vars

\* What the scheduler runs for a request once it is submitted: every
\* suspension point of the orchestrator resumes, and the adapter's timeout
\* bounds the LLM call.
Step(r) ==
  \/ CacheLookupStep(r)
  \/ ResumeStep(r)
  \/ RateCheckStep(r)
  \/ \E outcome \in LlmOutcomes : LlmReturnStep(r, outcome)

FairSpec == Spec /\ \A r \in Requests : WF_vars(Step(r))

\* --------------------------------- 4.3 cache tier manager, called directly
\* The results handed to store: one on each side of the two thresholds, and
\* a fallback result.
StoredResults ==
  { BuildResult(<<Pair("QUOTE_REQUEST", conf)>>, "en", FALSE) :
      conf \in {MediumConfidence - 1, MediumConfidence,
                HighConfidence - 1, HighConfidence} }
    \cup { BuildResult(<<Pair("UNKNOWN", FallbackNoMatchConfidence)>>, "en", TRUE) }

\* store(fingerprint, result).
CacheStore(fp, result) ==
  /\ cache' = Store(cache, fp, result, now)
  /\ written' = Remember(written, fp, result, now)
  /\ UNCHANGED <<now, ticks, buckets, found, locked, callers, ledger>>
  /\ UNCHANGED orchestratorVars
  /\ UNCHANGED webVars

\* lookup(fingerprint), with its lazy eviction.
CacheLookup(fp) ==
  /\ LET got == Lookup(cache, fp, now) IN
     found' = [fp |-> fp, at |-> now, hit |-> got.hit,
               result |-> IF got.hit THEN got.result ELSE NoResult]
  /\ cache' = Evict(cache, fp, now)
  /\ UNCHANGED <<now, ticks, written, buckets, locked, callers, ledger>>
  /\ UNCHANGED orchestratorVars
  /\ UNCHANGED webVars

\* Clock steps around the two times to live.
CacheTickSteps ==
  {1, TtlMediumHours * TicksPerHour - 1, TtlMediumHours * TicksPerHour,
   TtlHighHours * TicksPerHour - 1, TtlHighHours * TicksPerHour}

CacheTick(d) ==
  /\ ticks < MaxTicks
  /\ now' = now + d
  /\ ticks' = ticks + 1
  /\ UNCHANGED <<cache, written, buckets>>
  /\ UNCHANGED componentVars
  /\ UNCHANGED orchestratorVars
  /\ UNCHANGED webVars

NextCache ==
  \/ \E fp \in Fingerprints, result \in StoredResults : CacheStore(fp, result)
  \/ \E fp \in Fingerprints : CacheLookup(fp)
  \/ \E d \in CacheTickSteps : CacheTick(d)

SpecCache == Init /\ [][NextCache]_vars

\* ------------------------------------- 4.4 rate limiter, admit step by step
\* The client key whose concurrent admit calls are followed.
FollowedKey == CHOOSE c \in Clients : \A d \in Clients : c <= d

\* Calls of admit that are waited for or running for a client key.
Pending(c) == { k \in Callers : callers[k].pc # "idle" /\ callers[k].client = c }

\* admit(client_key) is called: the caller waits for the key's critical section.
AdmitCall(k, c) ==
  /\ callers[k].pc = "idle"
  /\ ledger[c].requests + Cardinality(Pending(c)) < MaxAdmits
  /\ callers' = [callers EXCEPT ![k] = [@ EXCEPT !.pc = "waiting", !.client = c]]
  /\ UNCHANGED <<now, ticks, cache, written, buckets, found, locked, ledger>>
  /\ UNCHANGED orchestratorVars
  /\ UNCHANGED webVars

\* UnlockedKey of a limiter without critical section.
UnlockedAlways(c) == TRUE

\* Whether the critical section of the client key is free.
UnlockedKey(c) == c \notin locked

\* The caller enters the critical section and reads the bucket.
AdmitEnter(k) ==
  /\ callers[k].pc = "waiting"
  /\ UnlockedKey(callers[k].client)
  /\ locked' = locked \cup {callers[k].client}
  /\ callers' = [callers EXCEPT ![k] =
       [@ EXCEPT !.pc = "holding", !.seen = buckets[callers[k].client],
                 !.at = now]]
  /\ UNCHANGED <<now, ticks, cache, written, buckets, found, ledger>>
  /\ UNCHANGED orchestratorVars
  /\ UNCHANGED webVars

\* The account of a client key after decision d, taken at time t on the
\* bucket as it is.
Account(l, b, d, t) ==
  LET cur == IF b.present THEN b ELSE NewBucket(t)
      nth == l.requests + 1
      firstDenied == ~d.allowed /\ l.first_denied = 0
  IN
  [requests |-> nth,
   admitted |-> l.admitted + (IF d.allowed THEN 1 ELSE 0),
   credited |-> l.credited + (Refill(cur, t).tokens - cur.tokens),
   opened |-> IF b.present THEN l.opened ELSE t,
   first_denied |-> IF firstDenied THEN nth ELSE l.first_denied,
   first_denied_at |-> IF firstDenied THEN t ELSE l.first_denied_at,
   first_denied_remaining |->
     IF firstDenied THEN RateHeaders(d, t).remaining
     ELSE l.first_denied_remaining,
   last |-> [allowed |-> d.allowed, retry_after |-> d.retry_after,
             headers |-> RateHeaders(d, t)],
   last_at |-> t]

\* The caller refills, decides, writes the bucket back and leaves the
\* critical section.
AdmitLeave(k) ==
  /\ callers[k].pc = "holding"
  /\ LET c == callers[k].client
         d == Admit(callers[k].seen, callers[k].at)
     IN
     /\ buckets' = [buckets EXCEPT ![c] = d.bucket]
     /\ ledger' = [ledger EXCEPT ![c] = Account(@, buckets[c], d, callers[k].at)]
     /\ locked' = locked \ {c}
  /\ callers' = [callers EXCEPT ![k] = IdleCaller]
  /\ UNCHANGED <<now, ticks, cache, written, found>>
  /\ UNCHANGED orchestratorVars
  /\ UNCHANGED webVars

\* Clock steps: part of a token, a token, a minute.
RateTickSteps == {1, OneToken, TicksPerMinute}

RateTick(d) ==
  /\ ticks < MaxRateTicks
  /\ now' = now + d
  /\ ticks' = ticks + 1
  /\ UNCHANGED <<cache, written, buckets>>
  /\ UNCHANGED componentVars
  /\ UNCHANGED orchestratorVars
  /\ UNCHANGED webVars

NextRate ==
  \/ \E k \in Callers : AdmitCall(k, FollowedKey)
  \/ \E k \in Callers : AdmitEnter(k)
  \/ \E k \in Callers : AdmitLeave(k)
  \/ \E d \in RateTickSteps : RateTick(d)

SpecRate == Init /\ [][NextRate]_vars

\* ------------------------------------------ web application: inquiryStore
\* error instanceof Error ? error : new Error(fallback).
ErrorOfFallbackOnly(rejection, fallback) == [message |-> fallback]

ErrorOf(rejection, fallback) ==
  IF rejection.instance = "Error" THEN [message |-> rejection.message]
  ELSE [message |-> fallback]

\* The store action of a slot starts: set({ isLoading: true, error: null }),
\* then the API call is awaited.
Started(k, kind, id) ==
  /\ store' = [store EXCEPT !.isLoading = TRUE, !.error = NullError]
  /\ calls' = [calls EXCEPT ![k] =
       [kind |-> kind, state |-> "pending", id |-> id, deleted |-> {}]]
  /\ UNCHANGED settled
  /\ UNCHANGED <<serviceVars, hookVars, viewVars>>

\* The catch block that leaves isLoading as it is.
FailedStillLoading(k, rejection, fallback) ==
  /\ store' = [store EXCEPT !.error = ErrorOf(rejection, fallback)]
  /\ calls' = [calls EXCEPT ![k] = IdleCall]
  /\ settled' = [kind |-> calls[k].kind, outcome |-> "rejected",
                 thrown |-> ErrorOf(rejection, fallback), returned |-> "null"]
  /\ UNCHANGED <<serviceVars, hookVars, viewVars>>

\* The catch block of a store action: set({ isLoading: false, error }),
\* throw errorObj.
Failed(k, rejection, fallback) ==
  LET errorObj == ErrorOf(rejection, fallback) IN
  /\ store' = [store EXCEPT !.isLoading = FALSE, !.error = errorObj]
  /\ calls' = [calls EXCEPT ![k] = IdleCall]
  /\ settled' = [kind |-> calls[k].kind, outcome |-> "rejected",
                 thrown |-> errorObj, returned |-> "null"]
  /\ UNCHANGED <<serviceVars, hookVars, viewVars>>

\* A store action under way, after the action done succeeded.
Overtaken(call, done) ==
  IF call.kind = "fetch" /\ call.state = "pending" /\ done.kind = "delete"
  THEN [call EXCEPT !.deleted = @ \cup {done.id}]
  ELSE call

\* The action of slot k returns value to its caller.
Returned(k, value) ==
  /\ calls' = [j \in Calls |-> IF j = k THEN IdleCall ELSE Overtaken(calls[j], calls[k])]
  /\ settled' = [kind |-> calls[k].kind, outcome |-> "resolved",
                 thrown |-> NullError, returned |-> value]

SubmitStart(k) ==
  /\ calls[k].state = "idle"
  /\ Started(k, "submit", "null")

\* classifyInquiry resolved: set({ isLoading: false }), return inquiry_id.
SubmitResolve(k, inquiry_id) ==
  /\ calls[k].kind = "submit" /\ calls[k].state = "pending"
  /\ store' = [store EXCEPT !.isLoading = FALSE]
  /\ Returned(k, inquiry_id)
  /\ UNCHANGED <<serviceVars, hookVars, viewVars>>

SubmitReject(k, rejection) ==
  /\ calls[k].kind = "submit" /\ calls[k].state = "pending"
  /\ Failed(k, rejection, "Unknown error occurred")

FetchStart(k) ==
  /\ calls[k].state = "idle"
  /\ Started(k, "fetch", "null")

\* fetchInquiries resolved: the inquiries of the answer, with their dates
\* made Date objects, replace the list.
FetchResolve(k, list) ==
  /\ calls[k].kind = "fetch" /\ calls[k].state = "pending"
  /\ store' = [store EXCEPT !.inquiries = list, !.isLoading = FALSE]
  /\ Returned(k, "undefined")
  /\ UNCHANGED <<serviceVars, hookVars, viewVars>>

FetchReject(k, rejection) ==
  /\ calls[k].kind = "fetch" /\ calls[k].state = "pending"
  /\ Failed(k, rejection, "Failed to fetch inquiries")

\* inquiry.id === id that holds for every inquiry.
SameIdAlways(inquiry, id) == TRUE

\* inquiry.id === id; currentInquiry?.id === id for null is false.
SameId(inquiry, id) == inquiry # NullInquiry /\ inquiry.id = id

\* { ...inquiry, ...updates, updatedAt: new Date() }.
Merged(inquiry, updates) ==
  [inquiry EXCEPT !.status = IF updates.status = "keep" THEN @ ELSE updates.status,
                  !.updatedAt = "now"]

\* updateInquiry(id, updates), synchronous.
UpdateInquiry(id, updates) ==
  /\ store' = [store EXCEPT
       !.inquiries = [i \in 1..Len(@) |->
                        IF SameId(@[i], id) THEN Merged(@[i], updates) ELSE @[i]],
       !.currentInquiry = IF SameId(@, id) THEN Merged(@, updates) ELSE @]
  /\ UNCHANGED <<calls, settled>>
  /\ UNCHANGED <<serviceVars, hookVars, viewVars>>

DeleteStart(k, id) ==
  /\ calls[k].state = "idle"
  /\ Started(k, "delete", id)

\* Deleted that leaves currentInquiry alone.
DeletedFromListOnly(st, id) ==
  [st EXCEPT !.inquiries = SelectSeq(@, LAMBDA inquiry : ~SameId(inquiry, id)),
             !.isLoading = FALSE]

\* The store after a delete request for id succeeded.
Deleted(st, id) ==
  [st EXCEPT !.inquiries = SelectSeq(@, LAMBDA inquiry : ~SameId(inquiry, id)),
             !.currentInquiry = IF SameId(@, id) THEN NullInquiry ELSE @,
             !.isLoading = FALSE]

\* deleteInquiry resolved.
DeleteResolve(k) ==
  /\ calls[k].kind = "delete" /\ calls[k].state = "pending"
  /\ store' = Deleted(store, calls[k].id)
  /\ Returned(k, "undefined")
  /\ UNCHANGED <<serviceVars, hookVars, viewVars>>

DeleteReject(k, rejection) ==
  /\ calls[k].kind = "delete" /\ calls[k].state = "pending"
  /\ Failed(k, rejection, "Failed to delete inquiry")

\* The inquiries a component may select: one of the list, or null.
Selectable == { store.inquiries[i] : i \in 1..Len(store.inquiries) } \cup {NullInquiry}

SetCurrentInquiry(inquiry) ==
  /\ store' = [store EXCEPT !.currentInquiry = inquiry]
  /\ UNCHANGED <<calls, settled>>
  /\ UNCHANGED <<serviceVars, hookVars, viewVars>>

ClearError ==
  /\ store' = [store EXCEPT !.error = NullError]
  /\ UNCHANGED <<calls, settled>>
  /\ UNCHANGED <<serviceVars, hookVars, viewVars>>

NextStore ==
  \/ \E k \in Calls : SubmitStart(k)
  \/ \E k \in Calls, id \in InquiryIds : SubmitResolve(k, id)
  \/ \E k \in Calls, rejection \in ApiRejections : SubmitReject(k, rejection)
  \/ \E k \in Calls : FetchStart(k)
  \/ \E k \in Calls, list \in ServerLists : FetchResolve(k, list)
  \/ \E k \in Calls, rejection \in ApiRejections : FetchReject(k, rejection)
  \/ \E id \in InquiryIds, updates \in Updates : UpdateInquiry(id, updates)
  \/ \E k \in Calls, id \in InquiryIds : DeleteStart(k, id)
  \/ \E k \in Calls : DeleteResolve(k)
  \/ \E k \in Calls, rejection \in ApiRejections : DeleteReject(k, rejection)
  \/ \E inquiry \in Selectable : SetCurrentInquiry(inquiry)
  \/ ClearError

SpecStore == Init /\ [][NextStore]_vars

\* -------------------------------------------- web application: useInquiry
\* sanitizeInput(input): all tags stripped, then trimmed.
SanitizeInput(text) == Text(0, 0, text.visible)

\* validateInquiryData that checks the required fields only.
ValidateRequiredOnly(data) ==
  IF Blank(data.title) THEN "Title is required"
  ELSE IF Blank(data.description) THEN "Description is required"
  ELSE IF data.contactEmail = "" THEN "Email is required"
  ELSE IF Blank(data.companyName) THEN "Company name is required"
  ELSE "ok"

\* validateInquiryData(data): the message of the Error thrown, or "ok".
ValidateInquiryData(data) ==
  IF Blank(data.title) THEN "Title is required"
  ELSE IF Blank(data.description) THEN "Description is required"
  ELSE IF Length(data.description) < 20
    THEN "Description must be at least 20 characters"
  ELSE IF Length(data.title) > 200 THEN "Title must be less than 200 characters"
  ELSE IF data.contactEmail = "" THEN "Email is required"
  ELSE IF Blank(data.companyName) THEN "Company name is required"
  ELSE IF ~MatchesEmailRegex(data.contactEmail) THEN "Invalid email format"
  ELSE "ok"

\* sanitizedData of submitMutation.
SanitizedData(data) ==
  [data EXCEPT !.title = SanitizeInput(@),
               !.description = SanitizeInput(@),
               !.companyName = SanitizeInput(@)]

\* The promise of a mutation or fetch settles.
Settles(kind, outcome, thrown, returned) ==
  settled' = [kind |-> kind, outcome |-> outcome, thrown |-> thrown,
              returned |-> returned]

\* isSubmitting: submitMutation.isPending.
IsSubmitting(h, m) ==
  /\ h.observed # 0
  /\ m[h.observed].kind = "submit"
  /\ m[h.observed].state \in {"mutating", "pending"}

\* The observer of submitMutation after mutation k settled.
Unobserved(observed, k) == IF observed = k THEN 0 ELSE observed

\* submitInquiry(data): submitMutation starts and runs onMutate.
SubmitMutate(k, data) ==
  /\ mutations[k].state = "idle"
  /\ Len(sent) < MaxSent
  /\ hook' = [hook EXCEPT !.submissionStatus = "loading", !.observed = k]
  /\ mutations' = [mutations EXCEPT ![k] =
       [IdleMutation EXCEPT !.kind = "submit", !.state = "mutating", !.data = data]]
  /\ UNCHANGED <<sent, settled>>
  /\ UNCHANGED <<serviceVars, storeVars, viewVars>>

\* mutationFn of submitMutation: validate, sanitize, post; a validation
\* error goes to onError.
SubmitMutationFn(k) ==
  /\ mutations[k].kind = "submit"
  /\ mutations[k].state = "mutating"
  /\ LET data == mutations[k].data
         message == ValidateInquiryData(data)
     IN
     IF message # "ok"
     THEN /\ hook' = [hook EXCEPT !.submissionStatus = "error",
                                  !.observed = Unobserved(@, k)]
          /\ mutations' = [mutations EXCEPT ![k] = IdleMutation]
          /\ Settles("submit", "rejected", [message |-> message], "null")
          /\ UNCHANGED sent
     ELSE /\ sent' = Append(sent, Request("POST", "null", SanitizedData(data), NoUpdates))
          /\ mutations' = [mutations EXCEPT ![k].state = "pending"]
          /\ UNCHANGED <<hook, settled>>
  /\ UNCHANGED <<serviceVars, storeVars, viewVars>>

\* onSuccess that does not keep the inquiry id.
SubmitOnSuccessWithoutId(k, inquiry_id) ==
  /\ mutations[k].kind = "submit"
  /\ mutations[k].state = "pending"
  /\ hook' = [hook EXCEPT !.submissionStatus = "success",
                          !.observed = Unobserved(@, k)]
  /\ mutations' = [mutations EXCEPT ![k] = IdleMutation]
  /\ Settles("submit", "resolved", NullError, inquiry_id)
  /\ UNCHANGED sent
  /\ UNCHANGED <<serviceVars, storeVars, viewVars>>

\* onSuccess of submitMutation.
SubmitOnSuccess(k, inquiry_id) ==
  /\ mutations[k].kind = "submit"
  /\ mutations[k].state = "pending"
  /\ hook' = [hook EXCEPT !.submissionStatus = "success",
                          !.lastSubmittedId = inquiry_id,
                          !.observed = Unobserved(@, k)]
  /\ mutations' = [mutations EXCEPT ![k] = IdleMutation]
  /\ Settles("submit", "resolved", NullError, inquiry_id)
  /\ UNCHANGED sent
  /\ UNCHANGED <<serviceVars, storeVars, viewVars>>

\* onError of submitMutation, the request failed.
SubmitOnError(k, rejection) ==
  /\ mutations[k].kind = "submit"
  /\ mutations[k].state = "pending"
  /\ hook' = [hook EXCEPT !.submissionStatus = "error",
                          !.observed = Unobserved(@, k)]
  /\ mutations' = [mutations EXCEPT ![k] = IdleMutation]
  /\ Settles("submit", "rejected", [message |-> rejection.message], "null")
  /\ UNCHANGED sent
  /\ UNCHANGED <<serviceVars, storeVars, viewVars>>

\* fetchInquiries(filters) up to the await.
HookFetch(k) ==
  /\ mutations[k].state = "idle"
  /\ Len(sent) < MaxSent
  /\ sent' = Append(sent, Request("GET", "null", NoForm, NoUpdates))
  /\ mutations' = [mutations EXCEPT ![k] =
       [IdleMutation EXCEPT !.kind = "fetch", !.state = "pending"]]
  /\ UNCHANGED <<hook, settled>>
  /\ UNCHANGED <<serviceVars, storeVars, viewVars>>

HookFetchResolve(k, list) ==
  /\ mutations[k].kind = "fetch"
  /\ mutations[k].state = "pending"
  /\ hook' = [hook EXCEPT !.inquiries = list]
  /\ mutations' = [mutations EXCEPT ![k] = IdleMutation]
  /\ Settles("fetch", "resolved", NullError, "undefined")
  /\ UNCHANGED sent
  /\ UNCHANGED <<serviceVars, storeVars, viewVars>>

HookFetchReject(k, rejection) ==
  /\ mutations[k].kind = "fetch"
  /\ mutations[k].state = "pending"
  /\ mutations' = [mutations EXCEPT ![k] = IdleMutation]
  /\ Settles("fetch", "rejected", [message |-> rejection.message], "null")
  /\ UNCHANGED <<hook, sent>>
  /\ UNCHANGED <<serviceVars, storeVars, viewVars>>

\* { ...inquiry, ...updates }
Spread(inquiry, updates) ==
  [inquiry EXCEPT !.status = IF updates.status = "keep" THEN @ ELSE updates.status]

\* prev.map(inquiry => inquiry.id === id ? { ...inquiry, ...updates } : inquiry)
Patched(list, id, updates) ==
  [i \in 1..Len(list) |->
     IF list[i].id = id THEN Spread(list[i], updates) ELSE list[i]]

\* updateInquiry(id, updates): onMutate of updateMutation, the optimistic
\* update, then mutationFn, which sends the request.
UpdateMutate(k, id, updates) ==
  /\ mutations[k].state = "idle"
  /\ Len(sent) < MaxSent
  /\ hook' = [hook EXCEPT !.inquiries = Patched(@, id, updates)]
  /\ sent' = Append(sent, Request("PATCH", id, NoForm, updates))
  /\ mutations' = [mutations EXCEPT ![k] =
       [IdleMutation EXCEPT !.kind = "update", !.state = "pending", !.id = id,
                            !.updates = updates, !.was = hook.inquiries]]
  /\ UNCHANGED settled
  /\ UNCHANGED <<serviceVars, storeVars, viewVars>>

\* updateMutation has no onSuccess.
UpdateOnSuccess(k) ==
  /\ mutations[k].kind = "update"
  /\ mutations[k].state = "pending"
  /\ mutations' = [mutations EXCEPT ![k] = IdleMutation]
  /\ Settles("update", "resolved", NullError, "undefined")
  /\ UNCHANGED <<hook, sent>>
  /\ UNCHANGED <<serviceVars, storeVars, viewVars>>

\* onError of updateMutation: the queries with key 'inquiries' are
\* invalidated; the hook keeps its inquiries in useState, which no query
\* feeds.
UpdateOnError(k, rejection) ==
  /\ mutations[k].kind = "update"
  /\ mutations[k].state = "pending"
  /\ mutations' = [mutations EXCEPT ![k] = IdleMutation]
  /\ Settles("update", "rejected", [message |-> rejection.message], "null")
  /\ UNCHANGED <<hook, sent>>
  /\ UNCHANGED <<serviceVars, storeVars, viewVars>>

\* The dialog answers whatever is asked with yes.
ConfirmedAlways(answer) == TRUE

\* const confirmed = window.confirm(...)
Confirmed(answer) == answer

\* deleteInquiry(id): mutationFn of deleteMutation up to the await; answer is
\* what the user answers to the confirmation dialog.
DeleteMutationFn(k, id, answer) ==
  /\ mutations[k].state = "idle"
  /\ Len(sent) < MaxSent
  /\ IF ~Confirmed(answer)
     THEN /\ Settles("delete", "resolved", NullError, "false")
          /\ UNCHANGED <<hook, mutations, sent>>
     ELSE /\ sent' = Append(sent, Request("DELETE", id, NoForm, NoUpdates))
          /\ mutations' = [mutations EXCEPT ![k] =
               [IdleMutation EXCEPT !.kind = "delete", !.state = "pending",
                                    !.id = id, !.confirmed = answer]]
          /\ UNCHANGED <<hook, settled>>
  /\ UNCHANGED <<serviceVars, storeVars, viewVars>>

\* onSuccess of deleteMutation with deleted = true.
DeleteOnSuccess(k) ==
  /\ mutations[k].kind = "delete"
  /\ mutations[k].state = "pending"
  /\ hook' = [hook EXCEPT !.inquiries =
       SelectSeq(@, LAMBDA inquiry : inquiry.id # mutations[k].id)]
  /\ mutations' = [mutations EXCEPT ![k] = IdleMutation]
  /\ Settles("delete", "resolved", NullError, "true")
  /\ UNCHANGED sent
  /\ UNCHANGED <<serviceVars, storeVars, viewVars>>

\* onError of deleteMutation.
DeleteOnError(k, rejection) ==
  /\ mutations[k].kind = "delete"
  /\ mutations[k].state = "pending"
  /\ mutations' = [mutations EXCEPT ![k] = IdleMutation]
  /\ Settles("delete", "rejected", [message |-> rejection.message], "null")
  /\ UNCHANGED <<hook, sent>>
  /\ UNCHANGED <<serviceVars, storeVars, viewVars>>

\* handleWebSocketMessage({ event: 'inquiry_updated', data }).
HandleWebSocketMessage(inquiryId, updates) ==
  /\ hook' = [hook EXCEPT !.inquiries = Patched(@, inquiryId, updates)]
  /\ UNCHANGED <<mutations, sent, settled>>
  /\ UNCHANGED <<serviceVars, storeVars, viewVars>>

NextHook ==
  \/ \E k \in Mutations, data \in Forms : SubmitMutate(k, data)
  \/ \E k \in Mutations : SubmitMutationFn(k)
  \/ \E k \in Mutations, id \in InquiryIds : SubmitOnSuccess(k, id)
  \/ \E k \in Mutations, rejection \in ApiRejections : SubmitOnError(k, rejection)
  \/ \E k \in Mutations : HookFetch(k)
  \/ \E k \in Mutations, list \in ServerLists : HookFetchResolve(k, list)
  \/ \E k \in Mutations, rejection \in ApiRejections : HookFetchReject(k, rejection)
  \/ \E k \in Mutations, id \in InquiryIds, updates \in Updates :
       UpdateMutate(k, id, updates)
  \/ \E k \in Mutations : UpdateOnSuccess(k)
  \/ \E k \in Mutations, rejection \in ApiRejections : UpdateOnError(k, rejection)
  \/ \E k \in Mutations, id \in InquiryIds, answer \in BOOLEAN :
       DeleteMutationFn(k, id, answer)
  \/ \E k \in Mutations : DeleteOnSuccess(k)
  \/ \E k \in Mutations, rejection \in ApiRejections : DeleteOnError(k, rejection)
  \/ \E id \in InquiryIds, updates \in Updates : HandleWebSocketMessage(id, updates)

SpecHook == Init /\ [][NextHook]_vars

\* ------------------------------------------- web application: InquiryForm
\* validateForm(data): the message for each field, "" for none.
ValidateForm(data) ==
  [title |->
     IF Blank(data.title) THEN "Title is required"
     ELSE IF Length(data.title) > 200 THEN "Title must be less than 200 characters"
     ELSE "",
   description |->
     IF Blank(data.description) THEN "Description is required"
     ELSE IF Length(data.description) < 20
       THEN "Description must be at least 20 characters"
     ELSE "",
   contactEmail |->
     IF data.contactEmail = "" THEN "Email is required"
     ELSE IF ~MatchesEmailRegex(data.contactEmail) THEN "Invalid email format"
     ELSE "",
   companyName |->
     IF Blank(data.companyName) THEN "Company name is required" ELSE ""]

\* register(field, { required: true }): handleSubmit calls onFormSubmit only
\* when no required field is the empty string.
RequiredFilled(data) == Length(data.title) > 0 /\ Length(data.description) > 0

\* The user fills in the fields, or initialData sets them.
SetValue(data) ==
  /\ form' = [form EXCEPT !.values = data]
  /\ UNCHANGED <<apiClient, dashboard>>
  /\ UNCHANGED <<serviceVars, storeVars, hookVars, settled>>

\* The submit button: handleSubmit(onFormSubmit) up to the await of
\* onSubmit.  The button is disabled while isSubmitting.
HandleSubmit ==
  /\ ~form.isSubmitting
  /\ form.passed < MaxSent
  /\ LET data == form.values
         validationErrors == ValidateForm(data)
     IN
     IF ~RequiredFilled(data) THEN UNCHANGED form
     ELSE IF validationErrors # NoFormErrors
       THEN form' = [form EXCEPT !.formErrors = validationErrors]
     ELSE form' = [form EXCEPT !.formErrors = validationErrors,
                               !.isSubmitting = TRUE,
                               !.passed = @ + 1,
                               !.payload = SanitizedData(data)]
  /\ UNCHANGED <<apiClient, dashboard>>
  /\ UNCHANGED <<serviceVars, storeVars, hookVars, settled>>

\* onSubmit resolved: reset(), setFormErrors({}).
OnSubmitResolved ==
  /\ form.isSubmitting
  /\ form' = [form EXCEPT !.values = NoForm, !.formErrors = NoFormErrors,
                          !.isSubmitting = FALSE]
  /\ UNCHANGED <<apiClient, dashboard>>
  /\ UNCHANGED <<serviceVars, storeVars, hookVars, settled>>

\* onSubmit rejected: the catch block shows a toast.
OnSubmitRejected ==
  /\ form.isSubmitting
  /\ form' = [form EXCEPT !.isSubmitting = FALSE]
  /\ UNCHANGED <<apiClient, dashboard>>
  /\ UNCHANGED <<serviceVars, storeVars, hookVars, settled>>

NextForm ==
  \/ \E data \in Forms \cup {NoForm} : SetValue(data)
  \/ HandleSubmit
  \/ OnSubmitResolved
  \/ OnSubmitRejected

\* The mutation followed next to the form.
FollowedMutation == CHOOSE k \in Mutations : \A j \in Mutations : k <= j

\* The form next to submitInquiry of the hook, one submission at a time.
NextSubmit ==
  \/ NextForm
  \/ \E data \in Forms \cup {NoForm} : SubmitMutate(FollowedMutation, data)
  \/ SubmitMutationFn(FollowedMutation)
  \/ \E id \in InquiryIds : SubmitOnSuccess(FollowedMutation, id)
  \/ \E rejection \in ApiRejections : SubmitOnError(FollowedMutation, rejection)

SpecSubmit == Init /\ [][NextSubmit]_vars

\* -------------------------------------------- web application: API client
\* The statuses a request is answered with.
Statuses == {200, 401, 500}

\* How a request that was answered with status settles for the caller.
Settled(call, status, via) ==
  [call EXCEPT !.pc = "done",
               !.outcome = IF status = 200 THEN "resolved" ELSE "rejected",
               !.status = status,
               !.via = via]

\* A call of apiClient: the request interceptor adds the token of
\* localStorage as Authorization header, and the request is sent.
ApiRequest(c) ==
  /\ apiClient.calls[c].pc \in {"idle", "done"}
  /\ apiClient' = [apiClient EXCEPT !.calls[c] =
       [IdleApiCall EXCEPT !.pc = "sent",
                           !.authorization = apiClient.authToken,
                           !.events = <<"request">>]]
  /\ UNCHANGED <<form, dashboard>>
  /\ UNCHANGED <<serviceVars, storeVars, hookVars, settled>>

\* The response interceptor: a response passes, an error other than 401 is
\* rejected, a 401 makes the refresh call.
ApiResponse(c, status) ==
  /\ apiClient.calls[c].pc = "sent"
  /\ apiClient' = [apiClient EXCEPT !.calls[c] =
       IF status = 401
       THEN [@ EXCEPT !.pc = "refreshing",
                      !.refreshes = @ + 1,
                      !.events = Append(@, "refresh")]
       ELSE Settled(@, status, "original")]
  /\ UNCHANGED <<form, dashboard>>
  /\ UNCHANGED <<serviceVars, storeVars, hookVars, settled>>

\* The refresh succeeded and the retry goes out with the header it had.
RefreshOkOldHeader(c, authToken) ==
  /\ apiClient.calls[c].pc = "refreshing"
  /\ apiClient' = [apiClient EXCEPT
       !.authToken = authToken,
       !.calls[c] = [@ EXCEPT !.pc = "retrying",
                              !.retries = @ + 1,
                              !.events = @ \o <<"setItem", "retry">>]]
  /\ UNCHANGED <<form, dashboard>>
  /\ UNCHANGED <<serviceVars, storeVars, hookVars, settled>>

\* The refresh call succeeded: the token is stored, then the original
\* request is sent again with it, through axios itself.
RefreshOk(c, authToken) ==
  /\ apiClient.calls[c].pc = "refreshing"
  /\ apiClient' = [apiClient EXCEPT
       !.authToken = authToken,
       !.calls[c] = [@ EXCEPT !.pc = "retrying",
                              !.authorization = authToken,
                              !.retries = @ + 1,
                              !.events = @ \o <<"setItem", "retry">>]]
  /\ UNCHANGED <<form, dashboard>>
  /\ UNCHANGED <<serviceVars, storeVars, hookVars, settled>>

\* The refresh call failed: the token is removed, the page goes to /login,
\* and the 401 is rejected.
RefreshFail(c) ==
  /\ apiClient.calls[c].pc = "refreshing"
  /\ apiClient' = [apiClient EXCEPT
       !.authToken = "none",
       !.location = "/login",
       !.calls[c] = Settled([@ EXCEPT !.events = @ \o <<"removeItem", "redirect">>],
                            401, "original")]
  /\ UNCHANGED <<form, dashboard>>
  /\ UNCHANGED <<serviceVars, storeVars, hookVars, settled>>

\* The answer to the retry, were the retry sent through apiClient: its
\* response interceptor would refresh again on a 401.
RetryThroughClient(c, status) ==
  /\ apiClient.calls[c].pc = "retrying"
  /\ apiClient' = [apiClient EXCEPT !.calls[c] =
       IF status = 401
       THEN [@ EXCEPT !.pc = "refreshing",
                      !.refreshes = @ + 1,
                      !.events = Append(@, "refresh")]
       ELSE Settled(@, status, "retry")]
  /\ UNCHANGED <<form, dashboard>>
  /\ UNCHANGED <<serviceVars, storeVars, hookVars, settled>>

\* The answer to the retry: axios.request has no interceptors, the answer
\* goes to the caller as it is.
RetryResponse(c, status) ==
  /\ apiClient.calls[c].pc = "retrying"
  /\ apiClient' = [apiClient EXCEPT !.calls[c] = Settled(@, status, "retry")]
  /\ UNCHANGED <<form, dashboard>>
  /\ UNCHANGED <<serviceVars, storeVars, hookVars, settled>>

NextApi ==
  \/ \E c \in ApiCalls : ApiRequest(c)
  \/ \E c \in ApiCalls, status \in Statuses : ApiResponse(c, status)
  \/ \E c \in ApiCalls, authToken \in FreshTokens : RefreshOk(c, authToken)
  \/ \E c \in ApiCalls : RefreshFail(c)
  \/ \E c \in ApiCalls, status \in Statuses : RetryResponse(c, status)

SpecApi == Init /\ [][NextApi]_vars

\* ---------------------------------------- web application: DashboardLayout
\* The values a filter is set to.
FilterValues ==
  [search |-> {"", "bracket"}, status |-> {"", "pending"}]

\* The state after filters and page were set: the inquiries query has a new
\* key when either changed, and no data for it yet.
Queried(filters, page) ==
  [filters |-> filters,
   currentPage |-> page,
   inquiriesData |->
     IF filters = dashboard.filters /\ page = dashboard.currentPage
     THEN dashboard.inquiriesData ELSE NoData]

\* The inquiries query is answered: the page asked for, and the number of
\* pages the server counts.
QueryResolve(total_pages) ==
  /\ ~dashboard.inquiriesData.defined
  /\ dashboard' = [dashboard EXCEPT !.inquiriesData =
       [defined |-> TRUE, page |-> dashboard.currentPage, total_pages |-> total_pages]]
  /\ UNCHANGED <<form, apiClient>>
  /\ UNCHANGED <<serviceVars, storeVars, hookVars, settled>>

HandleFilterChange(key, value) ==
  /\ dashboard' = Queried([dashboard.filters EXCEPT ![key] = value], 1)
  /\ UNCHANGED <<form, apiClient>>
  /\ UNCHANGED <<serviceVars, storeVars, hookVars, settled>>

HandleClearFilters ==
  /\ dashboard' = Queried(NoFilters, 1)
  /\ UNCHANGED <<form, apiClient>>
  /\ UNCHANGED <<serviceVars, storeVars, hookVars, settled>>

\* The Previous button, rendered with the pagination of the answer and
\* disabled on page 1.
ClickPrevious ==
  /\ dashboard.inquiriesData.defined
  /\ dashboard.currentPage # 1
  /\ dashboard' = Queried(dashboard.filters,
       IF dashboard.currentPage - 1 > 1 THEN dashboard.currentPage - 1 ELSE 1)
  /\ UNCHANGED <<form, apiClient>>
  /\ UNCHANGED <<serviceVars, storeVars, hookVars, settled>>

\* The Next button, disabled when currentPage is total_pages.
ClickNext ==
  /\ dashboard.inquiriesData.defined
  /\ dashboard.currentPage # dashboard.inquiriesData.total_pages
  /\ dashboard' = Queried(dashboard.filters,
       IF dashboard.inquiriesData.total_pages < dashboard.currentPage + 1
       THEN dashboard.inquiriesData.total_pages ELSE dashboard.currentPage + 1)
  /\ UNCHANGED <<form, apiClient>>
  /\ UNCHANGED <<serviceVars, storeVars, hookVars, settled>>

NextDashboard ==
  \/ \E total_pages \in 0..MaxPages : QueryResolve(total_pages)
  \/ \E key \in DOMAIN FilterValues :
       \E value \in FilterValues[key] : HandleFilterChange(key, value)
  \/ HandleClearFilters
  \/ ClickPrevious
  \/ ClickNext

SpecDashboard == Init /\ [][NextDashboard]_vars

\* ================================================================ claims
LlmFailures == {"Timeout", "ProviderError", "ParseError"}

\* Whether the request went through state st of the orchestrator.
Visited(r, st) == \E i \in 1..Len(req[r].trail) : req[r].trail[i] = st

\* The requests whose LLM classification of fp is in flight.
Calling(fp) == { r \in Requests : req[r].pc = "LlmCall" /\ FpOf(r) = fp }

\* C1: for every fingerprint at most one LLM classification is in flight;
\* the request that makes or awaits the LLM call holds the flight of its
\* fingerprint alone, and a request that finds a flight waits without having
\* started an LLM call of its own for that lookup.
C1_SingleFlight ==
  /\ \A fp \in Fingerprints : Cardinality(Calling(fp)) <= 1
  /\ \A r \in Requests :
       /\ req[r].pc \in {"RateCheck", "LlmCall"} =>
            /\ req[r].leader
            /\ FpOf(r) \in inflight
            /\ \A q \in Requests \ {r} : req[q].leader => FpOf(q) # FpOf(r)
       /\ req[r].pc = "Waiting" =>
            /\ ~req[r].leader
            /\ req[r].trail[Len(req[r].trail)] = "CacheLookup"

\* C1 witness: one request is in its LLM call while another request for the
\* same fingerprint waits.
C1_Witness ==
  \E r, q \in Requests :
    /\ req[r].pc = "LlmCall"
    /\ req[q].pc = "Waiting"
    /\ FpOf(q) = FpOf(r)

C6_SecondSubmissionFromCache ==
  [][\A r \in Requests :
       ( /\ req[r].pc = "Sanitized"
         /\ req'[r].pc \notin {"Sanitized", "Cancelled"}
         /\ written[FpOf(r)].result.confidence >= HighConfidence
         /\ now < written[FpOf(r)].at + TtlHighHours * TicksPerHour )
       => ( /\ req'[r].pc = "Done"
            /\ req'[r].path = "cache"
            /\ req'[r].status = 200
            /\ req'[r].result = written[FpOf(r)].result
            /\ req'[r].llm_calls = 0 )]_vars

\* C6 witness: a text got a high-confidence result from the LLM and a second
\* request with another raw text of the same fingerprint was served from the
\* cache within the window, with no LLM call.
C6_Witness ==
  \E r, q \in Requests :
    /\ req[r].pc = "Done" /\ req[r].path = "llm"
    /\ req[r].result.confidence >= HighConfidence
    /\ req[q].pc = "Done" /\ req[q].path = "cache"
    /\ req[q].clean # req[r].clean
    /\ FpOf(q) = FpOf(r)
    /\ req[q].result = req[r].result
    /\ req[q].llm_calls = 0
    /\ now > 0

TerminalEvents == {"classification_complete", "error"}

\* A stream that opens with classification_start{0}, goes on with
\* classification_progress events only, and holds a terminal event at most
\* as its last one, classification_complete with progress 100.
OrderedStream(ev) ==
  /\ ev[1] = Event("classification_start", 0)
  /\ \A i \in 2..Len(ev) :
       /\ ev[i].event \in {"classification_progress"} \cup TerminalEvents
       /\ ev[i].event \in TerminalEvents => i = Len(ev)
       /\ ev[i].event = "classification_complete" => ev[i].progress = 100

\* C9: the stream of every inquiry is ordered; it holds exactly one terminal
\* event, as its last event, once the request has ended, and none before.
C9_OrderedEventStream ==
  \A r \in Requests :
    LET ev == req[r].events IN
    /\ req[r].pc = "Idle" <=> ev = << >>
    /\ ev # << >> =>
         /\ OrderedStream(ev)
         /\ req[r].pc \in TerminalPcs <=> ev[Len(ev)].event \in TerminalEvents
         /\ req[r].pc = "Done" <=> ev[Len(ev)].event = "classification_complete"

\* C9 witness: one stream went start, progress, progress, progress, complete
\* and another one ended in error.
C9_Witness ==
  \E r, q \in Requests :
    /\ Len(req[r].events) = 5
    /\ req[r].events[5] = Event("classification_complete", 100)
    /\ req[q].events # << >>
    /\ req[q].events[Len(req[q].events)].event = "error"

\* all_categories is sorted by descending confidence, lists only pairs above
\* 0.1 and starts with the primary category.
RankedResult(res) ==
  LET a == res.all_categories IN
  /\ Len(a) >= 1
  /\ a[1].category = res.primary_category
  /\ a[1].confidence = res.confidence
  /\ \A i \in 1..Len(a) : a[i].confidence > ListedConfidence
  /\ \A i, j \in 1..Len(a) : i < j => a[i].confidence >= a[j].confidence

\* C10: every result a request is answered with, by the LLM, the cache or the
\* fallback, and every result the cache holds, is ranked.
C10_AllCategoriesRanked ==
  /\ \A r \in Requests : req[r].pc = "Done" => RankedResult(req[r].result)
  /\ \A fp \in Fingerprints : cache[fp].present => RankedResult(cache[fp].result)

\* C10 witness: an LLM result whose scores came unsorted, with one below the
\* threshold, was returned ranked, and a fallback result with two categories.
C10_Witness ==
  \E r, q \in Requests :
    /\ req[r].pc = "Done" /\ req[r].path = "llm"
    /\ Len(req[r].result.all_categories) = 2
    /\ req[r].result.all_categories[2].confidence < req[r].result.confidence
    /\ req[q].pc = "Done" /\ req[q].path = "fallback"
    /\ Len(req[q].result.all_categories) = 2

\* A result of the response contract: primary_category one of the six
\* categories, confidence within [0, 1].
ValidResult(res) ==
  /\ res.primary_category \in Categories
  /\ res.confidence \in 0..MaxConfidence

Holding(c) == { k \in Callers : callers[k].pc = "holding" /\ callers[k].client = c }

\* C3: under every interleaving of concurrent admit calls for one client
\* key, at most one call is inside the key's critical section, the bucket's
\* tokens stay within [0, capacity], every admitted call has deducted exactly
\* one token (the level is the capacity plus the refills credited minus one
\* token per admitted call), and no more calls are admitted than the
\* capacity and the time elapsed pay for, so the last token admits one call.
C3_AdmitAtomic ==
  \A c \in Clients :
    /\ Cardinality(Holding(c)) <= 1
    /\ buckets[c].present =>
         /\ buckets[c].tokens \in 0..FullBucket
         /\ buckets[c].tokens =
              FullBucket + ledger[c].credited - OneToken * ledger[c].admitted
         /\ OneToken * ledger[c].admitted <= FullBucket + (now - ledger[c].opened)
         /\ ledger[c].requests >= ledger[c].admitted

\* C3 witness: a caller is inside the critical section with the last token
\* of the bucket before it while the other caller waits for the same key.
C3_Witness ==
  \E k, j \in Callers :
    /\ callers[k].pc = "holding"
    /\ callers[k].seen.present
    /\ Refill(callers[k].seen, callers[k].at).tokens \in OneToken..(2 * OneToken - 1)
    /\ callers[j].pc = "waiting"
    /\ callers[j].client = callers[k].client

\* Whether time t is within one minute of the first call of the account.
WithinFirstMinute(l, t) == t < l.opened + TicksPerMinute

\* C4: of the calls one client makes within one minute the first 100 are
\* admitted and the 101st is denied, with X-RateLimit-Remaining 0: the first
\* call denied within the minute is the 101st, and a 101st call within the
\* minute is denied.
C4_First100Admitted ==
  \A c \in Clients :
    LET l == ledger[c] IN
    /\ (l.first_denied # 0 /\ WithinFirstMinute(l, l.first_denied_at)) =>
         /\ l.first_denied = RatePerMinute + 1
         /\ l.first_denied_remaining = 0
    /\ (l.requests > RatePerMinute /\ WithinFirstMinute(l, l.last_at)) =>
         l.first_denied = RatePerMinute + 1

After(r, st) ==
  LET t == req[r].trail
      i == CHOOSE j \in 1..Len(t) : t[j] = st
  IN IF i < Len(t) THEN t[i + 1] ELSE "none"

HeadersPresent(rec) ==
  /\ rec.headers.limit = RatePerMinute
  /\ rec.headers.remaining = 0
  /\ rec.headers.reset > 0

C13_PersistedOnce ==
  /\ [](\A r \in Requests :
          /\ req[r].pc = "Done" =>
               /\ req[r].puts = <<req[r].result>>
               /\ req[r].path \in {"cache", "llm", "fallback"}
               /\ req[r].stored \in {"pending", "stored", "failed"}
               /\ req[r].status = 200
          /\ req[r].pc # "Done" => req[r].puts = << >> /\ req[r].stored = "none")
  /\ [][\A r \in Requests :
          req[r].puts # << >> =>
            /\ req'[r].puts = req[r].puts
            /\ req'[r].result = req[r].result
            /\ req'[r].status = req[r].status
            /\ req'[r].pc = "Done"]_vars

\* C13 witness: a result served from the cache was handed to the collaborator
\* and its put failed, beside an LLM result whose put was stored.
C13_Witness ==
  \E r, q \in Requests :
    /\ req[r].path = "cache"
    /\ req[r].stored = "failed"
    /\ req[r].status = 200
    /\ req[q].path = "llm"
    /\ req[q].stored = "stored"

\* The store actions of the given kind that are under way.
Underway(kind) == { k \in Calls : calls[k].kind = kind /\ calls[k].state = "pending" }

\* C16: isLoading is true as long as a submitInquiry call is under way, also
\* when fetchInquiries or deleteInquiry calls overlap with it, and false once
\* the call has settled and no store action is under way.
C16_LoadingWhileSubmitting ==
  /\ Underway("submit") # {} => store.isLoading
  /\ (settled.kind = "submit" /\ \A k \in Calls : calls[k].state = "idle") =>
       ~store.isLoading

\* C17: a step in which the API call of submitInquiry, fetchInquiries or
\* deleteInquiry fails leaves inquiries and currentInquiry as they are, sets
\* isLoading to false, stores an error with the message of the rejection in
\* error, and throws that same error to the caller.
C17_FailureLeavesData ==
  [][\A k \in Calls, rejection \in ApiRejections :
       (SubmitReject(k, rejection) \/ FetchReject(k, rejection)
          \/ DeleteReject(k, rejection)) =>
         /\ store'.inquiries = store.inquiries
         /\ store'.currentInquiry = store.currentInquiry
         /\ store'.isLoading = FALSE
         /\ store'.error.message = rejection.message
         /\ settled'.outcome = "rejected"
         /\ settled'.kind = calls[k].kind
         /\ settled'.thrown = store'.error]_vars

\* C17 witness: a deleteInquiry call failed with the server's message while
\* the store held inquiries and a current inquiry.
C17_Witness ==
  /\ settled.kind = "delete"
  /\ settled.outcome = "rejected"
  /\ store.error.message = "Request failed with status code 500"
  /\ Len(store.inquiries) = 2
  /\ store.currentInquiry # NullInquiry
  /\ ~store.isLoading

\* The inquiries of a list whose id is not id, in their order.
RECURSIVE Others(_, _)
Others(list, id) ==
  IF list = << >> THEN << >>
  ELSE IF Head(list).id = id THEN Others(Tail(list), id)
       ELSE <<Head(list)>> \o Others(Tail(list), id)

\* What a successful deleteInquiry(id) does to the data of the store.
DeleteEffect(k) ==
  /\ store'.inquiries = Others(store.inquiries, calls[k].id)
  /\ store'.currentInquiry =
       IF store.currentInquiry # NullInquiry /\ store.currentInquiry.id = calls[k].id
       THEN NullInquiry ELSE store.currentInquiry
  /\ store'.isLoading = FALSE

\* C18 as stated: a successful deleteInquiry(id) removes exactly the
\* inquiries with that id, clears currentInquiry exactly when it has that id,
\* and ends with isLoading false and error null.
C18_Original ==
  [][\A k \in Calls :
       DeleteResolve(k) => DeleteEffect(k) /\ store'.error = NullError]_vars

\* C18 amended: a successful deleteInquiry(id) removes exactly the inquiries
\* with that id and keeps the others in their order, clears currentInquiry
\* exactly when it has that id, ends with isLoading false, and leaves error
\* as it is: null unless another store action failed while the delete was
\* under way.
C18_DeleteRemovesExactly ==
  [][\A k \in Calls :
       DeleteResolve(k) =>
         /\ DeleteEffect(k)
         /\ store'.error = store.error
         /\ settled'.kind = "delete" /\ settled'.outcome = "resolved"]_vars

\* C18 witness: a delete succeeded, one of two inquiries is left and the
\* current inquiry, which was the deleted one, is cleared.
C18_Witness ==
  /\ settled.kind = "delete"
  /\ settled.outcome = "resolved"
  /\ Len(store.inquiries) = 1
  /\ store.currentInquiry = NullInquiry
  /\ ~store.isLoading
  /\ store.error = NullError
  /\ \A k \in Calls : calls[k].state = "idle"

OtherFieldsValid(data) ==
  /\ ~Blank(data.title)
  /\ Length(data.title) <= 200
  /\ MatchesEmailRegex(data.contactEmail)
  /\ ~Blank(data.companyName)

\* The validation error a message of the web client stands for.
ErrorKind(message) ==
  CASE message = "Description must be at least 20 characters" -> "TooShort"
    [] message = "Description is required" -> "TooShort"
    [] OTHER -> message

\* C14: an inquiry text is accepted, that is sent on for classification,
\* exactly when its length is between 10 and 5000 characters; a shorter text
\* is rejected with TooShort, a longer one with TooLong, and a rejected text
\* is not sent on.
C14_AcceptedExactlyInBounds ==
  [][\A k \in Mutations :
       (SubmitMutationFn(k) /\ OtherFieldsValid(mutations[k].data)) =>
         LET text == mutations[k].data.description IN
         /\ sent' # sent <=>
              (Length(text) >= MinTextLength /\ Length(text) <= MaxTextLength)
         /\ Length(text) < MinTextLength =>
              settled'.outcome = "rejected"
              /\ ErrorKind(settled'.thrown.message) = "TooShort"
         /\ Length(text) > MaxTextLength =>
              settled'.outcome = "rejected"
              /\ ErrorKind(settled'.thrown.message) = "TooLong"]_vars

\* The inquiries of a list with the given id.
WithId(list, id) == { list[i] : i \in { j \in 1..Len(list) : list[j].id = id } }

\* C15: when updateInquiry(id, updates) fails on the server, the inquiry with
\* that id has afterwards the field values it had before updateInquiry was
\* called.
C15_RolledBackOnFailure ==
  [][\A k \in Mutations, rejection \in ApiRejections :
       UpdateOnError(k, rejection) =>
         WithId(hook'.inquiries, mutations[k].id)
           \subseteq WithId(mutations[k].was, mutations[k].id)]_vars

\* The ids of the inquiries of a list.
IdsOf(list) == { list[i].id : i \in 1..Len(list) }

\* C20: when the user declines the confirmation of deleteInquiry(id), no
\* request is sent and inquiries is unchanged; a step takes an inquiry out
\* of inquiries only when a fetched list replaces them or when a delete
\* request for its id, sent after the user confirmed, succeeded.
C20_DeleteOnlyWhenConfirmed ==
  [][/\ \A k \in Mutations, id \in InquiryIds :
          DeleteMutationFn(k, id, FALSE) =>
            /\ sent' = sent
            /\ hook'.inquiries = hook.inquiries
            /\ mutations' = mutations
     /\ \A id \in IdsOf(hook.inquiries) \ IdsOf(hook'.inquiries) :
          \/ settled'.kind = "fetch" /\ settled'.outcome = "resolved"
          \/ \E k \in Mutations :
               /\ mutations[k].kind = "delete"
               /\ mutations[k].state = "pending"
               /\ mutations[k].id = id
               /\ mutations[k].confirmed
               /\ \E i \in 1..Len(sent) :
                    sent[i].method = "DELETE" /\ sent[i].id = id
               /\ mutations'[k] = IdleMutation
               /\ settled'.kind = "delete"
               /\ settled'.outcome = "resolved"
               /\ settled'.returned = "true"]_vars

\* C20 witness: the user confirmed, the delete request succeeded and the
\* inquiry is gone from the two that were fetched.
C20_Witness ==
  /\ settled.kind = "delete"
  /\ settled.returned = "true"
  /\ Len(hook.inquiries) = 1
  /\ Len(sent) = 2
  /\ sent[1].method = "GET"
  /\ sent[2].method = "DELETE"
  /\ sent[2].id \notin IdsOf(hook.inquiries)

\* C21: a call of fetchInquiries made after an earlier call has completed
\* (all calls of the hook carry the same parameters) issues no request.
C21_SecondFetchFromCache ==
  [][\A k \in Mutations :
       (HookFetch(k) /\ settled.kind = "fetch" /\ settled.outcome = "resolved") =>
         sent' = sent]_vars

\* C27: the response of a fetchInquiries call does not put into inquiries an
\* inquiry whose deleteInquiry succeeded while the fetch was under way.
C27_DeletedStaysDeleted ==
  [][\A k \in Calls, list \in ServerLists :
       FetchResolve(k, list) =>
         IdsOf(store'.inquiries) \cap calls[k].deleted = {}]_vars

\* C28: in every state of the inquiry store, isLoading = true implies
\* error = null.
C28_LoadingWithoutError == store.isLoading => store.error = NullError

\* C28 witness: a store action failed, and a later one is under way.
C28_Witness ==
  /\ store.isLoading
  /\ store.error = NullError
  /\ settled.outcome = "rejected"
  /\ \E k \in Calls : calls[k].state = "pending"

\* The submissions under way.
Submitting == { k \in Mutations : mutations[k].kind = "submit" }

\* C23 as stated: submissionStatus is 'loading' while a submission is
\* pending, and isSubmitting is true exactly while a submission is pending.
C23_Original ==
  /\ Submitting # {} => hook.submissionStatus = "loading"
  /\ IsSubmitting(hook, mutations) <=> Submitting # {}

\* What the events of a submission do to submissionStatus, lastSubmittedId
\* and isSubmitting.
SubmissionStep ==
  /\ \A k \in Mutations, data \in Forms :
       SubmitMutate(k, data) =>
         hook'.submissionStatus = "loading" /\ IsSubmitting(hook', mutations')
  /\ \A k \in Mutations, id \in InquiryIds :
       SubmitOnSuccess(k, id) =>
         hook'.submissionStatus = "success" /\ hook'.lastSubmittedId = id
  /\ \A k \in Mutations :
       (SubmitMutationFn(k) /\ ValidateInquiryData(mutations[k].data) # "ok") =>
         hook'.submissionStatus = "error" /\ sent' = sent
  /\ \A k \in Mutations, rejection \in ApiRejections :
       SubmitOnError(k, rejection) => hook'.submissionStatus = "error"
  /\ (hook'.submissionStatus = "success"
        /\ (hook.submissionStatus # "success"
              \/ hook'.lastSubmittedId # hook.lastSubmittedId)) =>
       \E k \in Mutations, id \in InquiryIds : SubmitOnSuccess(k, id)
  /\ hook'.lastSubmittedId # hook.lastSubmittedId =>
       hook'.submissionStatus = "success"
  /\ \A k \in Mutations :
       (Submitting = {k} /\ Submitting' = {k}) =>
         /\ hook'.submissionStatus = hook.submissionStatus
         /\ IsSubmitting(hook', mutations') = IsSubmitting(hook, mutations)
  /\ \A k \in Mutations :
       (Submitting = {k} /\ Submitting' = {}) =>
         /\ hook'.submissionStatus \in {"success", "error"}
         /\ ~IsSubmitting(hook', mutations')
  /\ (Submitting = {} /\ Submitting' = {}) =>
       /\ hook'.submissionStatus = hook.submissionStatus
       /\ ~IsSubmitting(hook', mutations')

\* C23 amended: submissionStatus starts as 'idle', becomes 'loading' when a
\* submission starts, 'success' exactly when a submission succeeded, with
\* lastSubmittedId the inquiry id the API returned, and 'error' when
\* validation or the API call failed; nothing else changes it, so with one
\* submission at a time it is 'loading', and isSubmitting true, exactly
\* while that submission is pending.
C23_StatusFollowsSubmission ==
  /\ hook.submissionStatus = "idle"
  /\ ~IsSubmitting(hook, mutations)
  /\ [][SubmissionStep]_vars

\* C23 witness: the second of two submissions sent to the API succeeded;
\* the id the API returned is kept and nothing is pending.
C23_Witness ==
  /\ hook.submissionStatus = "success"
  /\ hook.lastSubmittedId = "INQ-2"
  /\ settled.kind = "submit"
  /\ settled.returned = "INQ-2"
  /\ Len(sent) = 2
  /\ sent[1].method = "POST"
  /\ sent[2].method = "POST"
  /\ Submitting = {}
  /\ ~IsSubmitting(hook, mutations)

\* Whether the fields of a form other than its title are acceptable.
RestValid(data) ==
  /\ Length(data.description) >= 20
  /\ ~Blank(data.description)
  /\ MatchesEmailRegex(data.contactEmail)
  /\ ~Blank(data.companyName)

\* C24: every title of 200 or more characters is rejected by
\* validateInquiryData with 'Title must be less than 200 characters', and
\* nothing is sent.
C24_TitleUnder200 ==
  [][\A k \in Mutations :
       (/\ SubmitMutationFn(k)
        /\ Length(mutations[k].data.title) >= 200
        /\ RestValid(mutations[k].data)) =>
         /\ sent' = sent
         /\ settled'.outcome = "rejected"
         /\ settled'.thrown.message = "Title must be less than 200 characters"]_vars

\* C29: every payload handed to apiService.classifyInquiry has a non-empty
\* title, a description of at least 20 characters and a non-empty company
\* name.
C29_SanitizedStillValid ==
  [][\A k \in Mutations :
       (SubmitMutationFn(k) /\ sent' # sent) =>
         LET payload == sent'[Len(sent')].data IN
         /\ ~Blank(payload.title)
         /\ ~Blank(payload.description)
         /\ Length(payload.description) >= 20
         /\ ~Blank(payload.companyName)]_vars

\* Data that fails validation: an empty title, description, email or company
\* name, a description shorter than 20 characters, a malformed email.
FailsValidation(data) ==
  \/ Blank(data.title)
  \/ Blank(data.description)
  \/ data.contactEmail = ""
  \/ Blank(data.companyName)
  \/ Length(data.description) < 20
  \/ ~MatchesEmailRegex(data.contactEmail)

C26_OneRefreshOneRetry ==
  /\ [](\A c \in ApiCalls :
          /\ apiClient.calls[c].refreshes <= 1
          /\ apiClient.calls[c].retries <= apiClient.calls[c].refreshes
          /\ Len(apiClient.calls[c].events) <= 4)
  /\ [][\A c \in ApiCalls :
          apiClient.calls[c].pc = "retrying" =>
            \/ apiClient'.calls[c] = apiClient.calls[c]
            \/ /\ apiClient'.calls[c].pc = "done"
               /\ apiClient'.calls[c].via = "retry"
               /\ apiClient'.calls[c].refreshes = 1
               /\ apiClient'.calls[c].retries = 1]_vars

\* C26 witness: the retry was answered with a second 401, which the caller
\* got after one refresh and one retry.
C26_Witness ==
  \E c \in ApiCalls :
    /\ apiClient.calls[c].pc = "done"
    /\ apiClient.calls[c].via = "retry"
    /\ apiClient.calls[c].outcome = "rejected"
    /\ apiClient.calls[c].status = 401
    /\ apiClient.calls[c].refreshes = 1
    /\ apiClient.calls[c].retries = 1

\* C30: currentPage is at least 1 in every state of DashboardLayout, and
\* every filter change and clear-filters sets it to 1.
C30_CurrentPageAtLeastOne ==
  /\ [](dashboard.currentPage >= 1)
  /\ [][/\ \A key \in DOMAIN FilterValues :
             \A value \in FilterValues[key] :
               HandleFilterChange(key, value) => dashboard'.currentPage = 1
        /\ HandleClearFilters => dashboard'.currentPage = 1]_vars

====
